---- MODULE Spec2Model ----
(***************************************************************************)
(* Model of package objectpriority (pkg/object/objectpriority/             *)
(* annotation.go): the priority-level annotation accessor.                 *)
(*                                                                         *)
(* State: one caller-owned *unstructured.Unstructured reference `obj`      *)
(* (possibly nil), the package variable `staticPriorities`, the last call  *)
(* made on the package and what it returned.  Strings whose content the    *)
(* code inspects (annotation values, apiVersion) are sequences of          *)
(* characters / path segments; uint64 values are four 16-bit limbs, most   *)
(* significant first, so that arithmetic wraps at 2^64 as in Go.           *)
(***************************************************************************)
EXTENDS Integers, Sequences, FiniteSets, TLC

VARIABLES obj, staticPriorities, call, result, lastWrite, repeated, hadMap

vars == <<obj, staticPriorities, call, result, lastWrite, repeated, hadMap>>

(***************************************************************************)
(* Bounds of the model.                                                    *)
(***************************************************************************)
\* annotation values are all strings over Alphabet up to this length,
\* plus the boundary strings of SpecialStrings
MaxLen == 2
\* priorities 0..MaxSmall are written, plus the boundary values
MaxSmall == 1

(***************************************************************************)
(* uint64                                                                  *)
(***************************************************************************)
Base == 2 ^ 16

Zero == <<0, 0, 0, 0>>

MaxUint64 == <<Base - 1, Base - 1, Base - 1, Base - 1>>

\* uint64(n) for a literal n < 2^31
U64(n) == <<0, 0, n \div Base, n % Base>>

\* a < b
U64Less(a, b) ==
    \E i \in 1..4 : a[i] < b[i] /\ \A j \in 1..(i - 1) : a[j] = b[j]

\* a > b
U64Greater(a, b) == U64Less(b, a)

\* n * m in uint64 arithmetic (mod 2^64), m < 2^15
U64Mul(n, m) ==
    LET t4 == n[4] * m
        t3 == n[3] * m + t4 \div Base
        t2 == n[2] * m + t3 \div Base
        t1 == n[1] * m + t2 \div Base
    IN  <<t1 % Base, t2 % Base, t3 % Base, t4 % Base>>

\* n + d in uint64 arithmetic (mod 2^64), d < 2^15
U64Add(n, d) ==
    LET t4 == n[4] + d
        t3 == n[3] + t4 \div Base
        t2 == n[2] + t3 \div Base
        t1 == n[1] + t2 \div Base
    IN  <<t1 % Base, t2 % Base, t3 % Base, t4 % Base>>

\* n / m and n % m, m < 2^15
U64DivMod(n, m) ==
    LET x1 == n[1]
        x2 == (x1 % m) * Base + n[2]
        x3 == (x2 % m) * Base + n[3]
        x4 == (x3 % m) * Base + n[4]
    IN  [quot |-> <<x1 \div m, x2 \div m, x3 \div m, x4 \div m>>, rem |-> x4 % m]

(***************************************************************************)
(* Constants of the package                                                *)
(***************************************************************************)
Annotation == "config.kubernetes.io/priority-level"

MaxPriority == 1000000000

\* the initial value of the package variable staticPriorities
StaticPrioritiesTable ==
    [gk \in {<<"", "Namespace">>, <<"apiextensions.k8s.io", "CustomResourceDefinition">>}
        |-> U64(MaxPriority + 1)]

(***************************************************************************)
(* strconv.ParseUint(s, 10, 64) and fmt.Sprintf("%d", uint64)              *)
(***************************************************************************)
Digits == <<"0", "1", "2", "3", "4", "5", "6", "7", "8", "9">>

IsDigit(c) == \E d \in 1..10 : Digits[d] = c

DigitVal(c) == (CHOOSE d \in 1..10 : Digits[d] = c) - 1

\* cutoff = maxUint64/10 + 1: the smallest n with n*10 overflowing
Cutoff == U64Add(U64DivMod(MaxUint64, 10).quot, 1)

RECURSIVE ParseLoop(_, _, _)
ParseLoop(s, i, n) ==
    IF i > Len(s) THEN [value |-> n, err |-> "nil"]
    ELSE IF ~IsDigit(s[i]) THEN [value |-> Zero, err |-> "ErrSyntax"]
    ELSE IF ~U64Less(n, Cutoff) THEN [value |-> MaxUint64, err |-> "ErrRange"]
    ELSE LET m  == U64Mul(n, 10)
             n1 == U64Add(m, DigitVal(s[i]))
         IN  IF U64Less(n1, m)
             THEN [value |-> MaxUint64, err |-> "ErrRange"]
             ELSE ParseLoop(s, i + 1, n1)

ParseUint(s) ==
    IF s = <<>> THEN [value |-> Zero, err |-> "ErrSyntax"]
    ELSE ParseLoop(s, 1, Zero)

RECURSIVE FormatDigits(_)
FormatDigits(n) ==
    IF n = Zero THEN <<>>
    ELSE LET qr == U64DivMod(n, 10)
         IN  Append(FormatDigits(qr.quot), Digits[qr.rem + 1])

FormatUint(n) == IF n = Zero THEN <<"0">> ELSE FormatDigits(n)

(***************************************************************************)
(* unstructured.Unstructured: a nil-able reference is a sequence of        *)
(* length at most one; so is the possibly missing metadata.annotations.    *)
(***************************************************************************)
Nil == <<>>

Ref(x) == <<x>>

\* u.GetAnnotations(): the annotation map, nil when the field is missing
GetAnnotations(u) == u[1].annotations

\* u.SetAnnotations(a) for a non-nil map a
SetAnnotations(u, a) == Ref([u[1] EXCEPT !.annotations = a])

\* v, found := a[k] on a possibly nil map
MapGet(a, k) ==
    IF a # Nil /\ k \in DOMAIN a[1]
    THEN [value |-> a[1][k], found |-> TRUE]
    ELSE [value |-> <<>>, found |-> FALSE]

\* a[k] = v on a non-nil map
MapPut(a, k, v) ==
    Ref([x \in DOMAIN a[1] \cup {k} |-> IF x = k THEN v ELSE a[1][x]])

\* schema.ParseGroupVersion on the apiVersion split at "/"
ParseGroupVersion(gv) ==
    IF gv = <<"">> \/ gv = <<"", "">> THEN [group |-> "", version |-> "", ok |-> TRUE]
    ELSE IF Len(gv) = 1 THEN [group |-> "", version |-> gv[1], ok |-> TRUE]
    ELSE IF Len(gv) = 2 THEN [group |-> gv[1], version |-> gv[2], ok |-> TRUE]
    ELSE [group |-> "", version |-> "", ok |-> FALSE]

\* u.GroupVersionKind().GroupKind()
GroupKind(u) ==
    LET gv == ParseGroupVersion(u[1].apiVersion)
    IN  IF gv.ok THEN <<gv.group, u[1].kind>> ELSE <<"", "">>

(***************************************************************************)
(* errors                                                                  *)
(***************************************************************************)
NoError == [type |-> "nil", annotation |-> "", cause |-> ""]

InvalidAnnotationError(a, c) ==
    [type |-> "InvalidAnnotationError", annotation |-> a, cause |-> c]

ErrorString(msg) == [type |-> "errorString", annotation |-> "", cause |-> msg]

MaxCause == "priority higher than the maximum allowed: 1000000000"

(***************************************************************************)
(* Faulty variants of the operations, used to show that each property      *)
(* below is sensitive to the code it is about.                             *)
(***************************************************************************)
\* looks the kind up without the group
GetStaticPriorityByKind(u, table) ==
    IF u = Nil THEN [value |-> Zero, found |-> FALSE]
    ELSE IF \E gk \in DOMAIN table : gk[2] = u[1].kind
         THEN [value |-> table[CHOOSE gk \in DOMAIN table : gk[2] = u[1].kind],
               found |-> TRUE]
         ELSE [value |-> Zero, found |-> FALSE]

\* tests for an annotation map instead of the key
HasAnnotationAnyMap(u) ==
    IF u = Nil THEN FALSE ELSE GetAnnotations(u) # Nil

\* the bound check with ">=" ("off-by-one"), with no check at all ("no-max"),
\* and a parse error dropped ("no-parse-error")
ReadAnnotationFaulty(u, fault) ==
    IF u = Nil THEN [value |-> Zero, err |-> NoError]
    ELSE LET got == MapGet(GetAnnotations(u), Annotation)
         IN  IF ~got.found THEN [value |-> Zero, err |-> NoError]
             ELSE LET parsed == ParseUint(got.value)
                      rejected ==
                          CASE fault = "off-by-one" -> ~U64Less(parsed.value, U64(MaxPriority))
                            [] fault = "no-max" -> FALSE
                            [] OTHER -> U64Greater(parsed.value, U64(MaxPriority))
                  IN  IF parsed.err # "nil"
                      THEN [value |-> Zero,
                            err |-> IF fault = "no-parse-error" THEN NoError
                                    ELSE InvalidAnnotationError(Annotation, parsed.err)]
                      ELSE IF rejected
                      THEN [value |-> Zero,
                            err |-> InvalidAnnotationError(Annotation, MaxCause)]
                      ELSE [value |-> parsed.value, err |-> NoError]

ReadAnnotationOffByOne(u) == ReadAnnotationFaulty(u, "off-by-one")

ReadAnnotationNoMaxCheck(u) == ReadAnnotationFaulty(u, "no-max")

ReadAnnotationIgnoreParseError(u) == ReadAnnotationFaulty(u, "no-parse-error")

\* the nil check returns no error
WriteAnnotationNilOk(o, priority) ==
    IF o = Nil THEN [obj |-> o, err |-> NoError]
    ELSE LET a0 == GetAnnotations(o)
             a  == IF a0 = Nil THEN Ref(<<>>) ELSE a0
         IN  [obj |-> SetAnnotations(o, MapPut(a, Annotation, FormatUint(priority))),
              err |-> NoError]

\* the map is never written back with obj.SetAnnotations
WriteAnnotationNoSet(o, priority) ==
    IF o = Nil THEN [obj |-> o, err |-> ErrorString("object is nil")]
    ELSE [obj |-> o, err |-> NoError]

\* "+=" for "=": the value is appended to the one already there
WriteAnnotationAppend(o, priority) ==
    IF o = Nil THEN [obj |-> o, err |-> ErrorString("object is nil")]
    ELSE LET a0 == GetAnnotations(o)
             a  == IF a0 = Nil THEN Ref(<<>>) ELSE a0
         IN  [obj |-> SetAnnotations(o, MapPut(a, Annotation,
                          MapGet(a, Annotation).value \o FormatUint(priority))),
              err |-> NoError]

\* the bound is enforced on the write path too
WriteAnnotationValidated(o, priority) ==
    IF o = Nil THEN [obj |-> o, err |-> ErrorString("object is nil")]
    ELSE IF U64Greater(priority, U64(MaxPriority))
    THEN [obj |-> o, err |-> ErrorString(MaxCause)]
    ELSE LET a0 == GetAnnotations(o)
             a  == IF a0 = Nil THEN Ref(<<>>) ELSE a0
         IN  [obj |-> SetAnnotations(o, MapPut(a, Annotation, FormatUint(priority))),
              err |-> NoError]

\* always starts from a fresh map
WriteAnnotationFreshMap(o, priority) ==
    IF o = Nil THEN [obj |-> o, err |-> ErrorString("object is nil")]
    ELSE [obj |-> SetAnnotations(o, MapPut(Ref(<<>>), Annotation, FormatUint(priority))),
          err |-> NoError]

(***************************************************************************)
(* The four operations                                                     *)
(***************************************************************************)
GetStaticPriority(u, table) ==
    IF u = Nil THEN [value |-> Zero, found |-> FALSE]
    ELSE LET gk == GroupKind(u)
         IN  IF gk \in DOMAIN table
             THEN [value |-> table[gk], found |-> TRUE]
             ELSE [value |-> Zero, found |-> FALSE]

HasAnnotation(u) ==
    IF u = Nil THEN FALSE
    ELSE MapGet(GetAnnotations(u), Annotation).found

ReadAnnotation(u) ==
    IF u = Nil THEN [value |-> Zero, err |-> NoError]
    ELSE LET got == MapGet(GetAnnotations(u), Annotation)
         IN  IF ~got.found THEN [value |-> Zero, err |-> NoError]
             ELSE LET parsed == ParseUint(got.value)
                  IN  IF parsed.err # "nil"
                      THEN [value |-> Zero,
                            err |-> InvalidAnnotationError(Annotation, parsed.err)]
                      ELSE IF U64Greater(parsed.value, U64(MaxPriority))
                      THEN [value |-> Zero,
                            err |-> InvalidAnnotationError(Annotation, MaxCause)]
                      ELSE [value |-> parsed.value, err |-> NoError]

WriteAnnotation(o, priority) ==
    IF o = Nil THEN [obj |-> o, err |-> ErrorString("object is nil")]
    ELSE LET a0 == GetAnnotations(o)
             a  == IF a0 = Nil THEN Ref(<<>>) ELSE a0
         IN  [obj |-> SetAnnotations(o, MapPut(a, Annotation, FormatUint(priority))),
              err |-> NoError]

(***************************************************************************)
(* Inputs                                                                  *)
(***************************************************************************)
Alphabet == {"0", "1", "9", "-", "+", " ", "a"}

Strings == UNION {[1..n -> Alphabet] : n \in 0..MaxLen}

StrFortyTwo == <<"4", "2">>

StrMax == <<"1", "0", "0", "0", "0", "0", "0", "0", "0", "0">>

StrMaxPlusOne == <<"1", "0", "0", "0", "0", "0", "0", "0", "0", "1">>

StrMaxUint64 ==
    <<"1", "8", "4", "4", "6", "7", "4", "4", "0", "7",
      "3", "7", "0", "9", "5", "5", "1", "6", "1", "5">>

StrMaxUint64PlusOne ==
    <<"1", "8", "4", "4", "6", "7", "4", "4", "0", "7",
      "3", "7", "0", "9", "5", "5", "1", "6", "1", "6">>

StrTwentyNines == [i \in 1..20 |-> "9"]

StrTenPow20 == [i \in 1..21 |-> IF i = 1 THEN "1" ELSE "0"]

OverflowStrings == {StrMaxUint64PlusOne, StrTwentyNines, StrTenPow20}

SpecialStrings ==
    {StrFortyTwo, StrMax, StrMaxPlusOne, StrMaxUint64} \cup OverflowStrings

AnnotationValues == Strings \cup SpecialStrings

OtherKey == "example.com/other"

OtherEntries == {<<>>, [k \in {OtherKey} |-> <<"a">>]}

AnnotationMaps ==
    {Nil}
    \cup {Ref(m) : m \in OtherEntries}
    \cup {MapPut(Ref(m), Annotation, s) : m \in OtherEntries, s \in AnnotationValues}

ApiVersions ==
    {<<"">>, <<"v1">>, <<"apps", "v1">>, <<"apiextensions.k8s.io", "v1">>,
     <<"apiextensions.k8s.io", "v1beta1">>, <<"a", "b", "c">>}

Kinds == {"Namespace", "CustomResourceDefinition", "ConfigMap"}

Names == {[name |-> "unused", namespace |-> "unused"], [name |-> "other", namespace |-> ""]}

Object(v, k, n, a) ==
    Ref([apiVersion |-> v, kind |-> k, name |-> n.name, namespace |-> n.namespace,
         annotations |-> a])

\* every identity with a few annotation maps
IdentityObjects ==
    {Object(v, k, n, a) :
        v \in ApiVersions, k \in Kinds, n \in Names,
        a \in {Nil, Ref(<<>>), MapPut(Ref(<<>>), Annotation, <<"1">>)}}

\* every annotation map on the kinds of the package's tests
AnnotatedObjects ==
    {Object(<<"v1">>, k, [name |-> "unused", namespace |-> "unused"], a) :
        k \in {"ConfigMap", "Namespace"}, a \in AnnotationMaps}

Objects == {Nil} \cup IdentityObjects \cup AnnotatedObjects

Priorities ==
    {U64(n) : n \in (0..MaxSmall) \cup {42, MaxPriority, MaxPriority + 1}}
    \cup {MaxUint64}

(***************************************************************************)
(* The state machine: the caller holds one object and calls the package.   *)
(***************************************************************************)
NoResult == [value |-> Zero, found |-> FALSE, err |-> NoError]

Init ==
    /\ obj \in Objects
    /\ staticPriorities = StaticPrioritiesTable
    /\ call = [op |-> "none", arg |-> Zero]
    /\ result = NoResult
    /\ lastWrite = Nil
    /\ repeated = FALSE
    /\ hadMap = (obj # Nil /\ GetAnnotations(obj) # Nil)

CallGetStaticPriority ==
    /\ call' = [op |-> "GetStaticPriority", arg |-> Zero]
    /\ LET r == GetStaticPriority(obj, staticPriorities)
       IN  result' = [value |-> r.value, found |-> r.found, err |-> NoError]
    /\ UNCHANGED <<obj, staticPriorities, lastWrite, repeated, hadMap>>

CallHasAnnotation ==
    /\ call' = [op |-> "HasAnnotation", arg |-> Zero]
    /\ result' = [value |-> Zero, found |-> HasAnnotation(obj), err |-> NoError]
    /\ UNCHANGED <<obj, staticPriorities, lastWrite, repeated, hadMap>>

CallReadAnnotation ==
    /\ call' = [op |-> "ReadAnnotation", arg |-> Zero]
    /\ LET r == ReadAnnotation(obj)
       IN  result' = [value |-> r.value, found |-> FALSE, err |-> r.err]
    /\ UNCHANGED <<obj, staticPriorities, lastWrite, repeated, hadMap>>

CallWriteAnnotation ==
    \E p \in Priorities :
        LET r == WriteAnnotation(obj, p)
        IN  /\ call' = [op |-> "WriteAnnotation", arg |-> p]
            /\ obj' = r.obj
            /\ result' = [value |-> Zero, found |-> FALSE, err |-> r.err]
            /\ lastWrite' = IF r.err = NoError THEN Ref(p) ELSE lastWrite
            /\ repeated' = IF r.err = NoError THEN lastWrite = Ref(p) ELSE repeated
            /\ UNCHANGED <<staticPriorities, hadMap>>

Next ==
    \/ CallGetStaticPriority
    \/ CallHasAnnotation
    \/ CallReadAnnotation
    \/ CallWriteAnnotation

Spec == Init /\ [][Next]_vars

(***************************************************************************)
(* Vocabulary of the properties                                            *)
(***************************************************************************)
Called(op) == call.op = op

\* the object carries the priority-level annotation
HasKey ==
    /\ obj # Nil
    /\ obj[1].annotations # Nil
    /\ Annotation \in DOMAIN obj[1].annotations[1]

\* the annotation's value (when HasKey)
Value == obj[1].annotations[1][Annotation]

Returned(v) == result.value = v /\ result.err = NoError

\* the call failed with an invalid-annotation error on the annotation key
Invalid ==
    /\ result.value = Zero
    /\ result.err.type = "InvalidAnnotationError"
    /\ result.err.annotation = "config.kubernetes.io/priority-level"

AllDigits(s) == s # <<>> /\ \A i \in 1..Len(s) : s[i] \in {Digits[d] : d \in 1..10}

\* the number a string of at most ten digits (below 2 * 10^9) denotes
RECURSIVE DecValue(_)
DecValue(s) ==
    IF s = <<>> THEN 0
    ELSE 10 * DecValue(SubSeq(s, 1, Len(s) - 1))
         + ((CHOOSE d \in 1..10 : Digits[d] = s[Len(s)]) - 1)

Short(s) == Len(s) <= 9 \/ (Len(s) = 10 /\ s[1] \in {"0", "1"})

\* the number a uint64 below 2^31 is
Small(p) == p[1] = 0 /\ p[2] = 0 /\ p[3] < 2 ^ 15

NatOf(p) == p[3] * (2 ^ 16) + p[4]

WithinMax(p) == Small(p) /\ NatOf(p) <= 1000000000

\* the annotations of an object other than the priority level
Others(o) ==
    IF o[1].annotations = Nil THEN <<>>
    ELSE [k \in DOMAIN o[1].annotations[1] \ {Annotation} |-> o[1].annotations[1][k]]

Identity(o) == <<o[1].apiVersion, o[1].kind, o[1].name, o[1].namespace>>

(***************************************************************************)
(* Properties                                                              *)
(***************************************************************************)

\* C1: ReadAnnotation enforces [0, MaxPriority]: an annotation that is the
\* decimal string of v reads as (v, nil) when v <= 1000000000 ("1000000000"
\* included) and fails with an invalid-annotation error and value 0 when
\* v > 1000000000 ("1000000001" included); the value is never clamped.
C1_RangeEnforced ==
    (Called("ReadAnnotation") /\ HasKey) =>
        /\ (AllDigits(Value) /\ Short(Value)) =>
               IF DecValue(Value) <= 1000000000
               THEN Returned(U64(DecValue(Value)))
               ELSE Invalid /\ result.err.cause = MaxCause
        /\ Value = StrMax => Returned(U64(1000000000))
        /\ Value = StrMaxPlusOne => Invalid
        /\ Value = StrMaxUint64 => Invalid /\ result.err.cause = MaxCause

C1_Witness ==
    /\ Called("ReadAnnotation") /\ HasKey
    /\ Value = StrMaxPlusOne
    /\ Invalid

\* C2: a present annotation that is not a base-10 unsigned 64-bit integer
\* (empty, non-numeric, signed, with whitespace, above 2^64-1) makes
\* ReadAnnotation fail with an invalid-annotation error carrying the key and
\* the parse failure; it never returns (0, nil).
C2_MalformedRejected ==
    (Called("ReadAnnotation") /\ HasKey) =>
        /\ ~AllDigits(Value) => Invalid /\ result.err.cause = "ErrSyntax"
        /\ Value \in OverflowStrings => Invalid /\ result.err.cause = "ErrRange"

C2_Witness ==
    /\ Called("ReadAnnotation") /\ HasKey
    /\ Value = StrMaxUint64PlusOne
    /\ Invalid /\ result.err.cause = "ErrRange"

\* C3: a priority ReadAnnotation returns without error is at most MaxPriority
\* and strictly below the static priority of every object in the static
\* table, whatever was written to the object before.
C3_StaticOutranks ==
    (Called("ReadAnnotation") /\ result.err = NoError) =>
        /\ WithinMax(result.value)
        /\ \A s \in Objects :
               GetStaticPriority(s, staticPriorities).found =>
                   /\ GetStaticPriority(s, staticPriorities).value = U64(1000000001)
                   /\ U64Less(result.value, GetStaticPriority(s, staticPriorities).value)

C3_Witness ==
    /\ Called("ReadAnnotation") /\ HasKey
    /\ lastWrite = Ref(U64(MaxPriority))
    /\ Returned(U64(MaxPriority))
    /\ GetStaticPriority(obj, staticPriorities).found

\* C4: GetStaticPriority depends on (group, kind) only: (1000000001, true)
\* for a core-group Namespace and for a CustomResourceDefinition of group
\* apiextensions.k8s.io at any version, (0, false) for anything else,
\* whatever the annotations, name and namespace.
C4_StaticLookup ==
    (Called("GetStaticPriority") /\ obj # Nil) =>
        LET gv == obj[1].apiVersion
            k  == obj[1].kind
        IN  IF \/ k = "Namespace" /\ Len(gv) = 1
               \/ k = "CustomResourceDefinition" /\ Len(gv) = 2
                      /\ gv[1] = "apiextensions.k8s.io"
            THEN result.value = U64(1000000001) /\ result.found
            ELSE result.value = Zero /\ ~result.found

C4_Witness ==
    /\ Called("GetStaticPriority") /\ obj # Nil
    /\ obj[1].kind = "CustomResourceDefinition"
    /\ obj[1].apiVersion = <<"apiextensions.k8s.io", "v1beta1">>
    /\ result.value = U64(1000000001) /\ result.found

\* C5: after WriteAnnotation(obj, p) with p <= MaxPriority on a non-nil
\* object (with or without an annotation map) the write returned no error,
\* HasAnnotation is true and ReadAnnotation returns (p, nil) for the p of the
\* last write.
C5_RoundTrip ==
    (obj # Nil /\ lastWrite # Nil /\ WithinMax(lastWrite[1])) =>
        /\ Called("WriteAnnotation") => result.err = NoError /\ call.arg = lastWrite[1]
        /\ Called("HasAnnotation") => result.found
        /\ Called("ReadAnnotation") => Returned(lastWrite[1])

C5_Witness ==
    /\ Called("ReadAnnotation") /\ obj # Nil
    /\ ~hadMap
    /\ lastWrite = Ref(U64(42))
    /\ Returned(U64(42))

\* C6: HasAnnotation is true iff the annotation map has the key; without
\* the key ReadAnnotation returns (0, nil), and so it does for the value "0".
C6_PresenceAndZero ==
    /\ Called("HasAnnotation") => (result.found <=> HasKey)
    /\ (Called("ReadAnnotation") /\ ~HasKey) => Returned(Zero)
    /\ (Called("ReadAnnotation") /\ HasKey /\ Value = <<"0">>) => Returned(Zero)

C6_Witness ==
    /\ Called("ReadAnnotation") /\ HasKey
    /\ Value = <<"0">>
    /\ Returned(Zero)

\* C7: on a nil object HasAnnotation returns false, ReadAnnotation (0, nil),
\* GetStaticPriority (0, false), and WriteAnnotation fails with "object is
\* nil" for every priority and writes nothing.
C7_NilObject ==
    [][obj = Nil =>
          /\ obj' = Nil
          /\ call'.op = "HasAnnotation" => ~result'.found /\ result'.err = NoError
          /\ call'.op = "ReadAnnotation" => result'.value = Zero /\ result'.err = NoError
          /\ call'.op = "GetStaticPriority" => result'.value = Zero /\ ~result'.found
          /\ call'.op = "WriteAnnotation" =>
                 /\ result'.err.type = "errorString"
                 /\ result'.err.cause = "object is nil"
                 /\ lastWrite' = lastWrite]_vars

C7_Witness ==
    /\ Called("WriteAnnotation") /\ obj = Nil
    /\ call.arg = U64(42)
    /\ result.err.cause = "object is nil"

\* C8 as stated: a second WriteAnnotation(obj, p) with the same p leaves the
\* object as the first left it, and ReadAnnotation then returns p, for any p.
C8_Original ==
    [][/\ (call'.op = "WriteAnnotation" /\ obj # Nil /\ lastWrite = Ref(call'.arg)) =>
              obj' = obj
       /\ (call'.op = "ReadAnnotation" /\ obj # Nil /\ repeated) =>
              result'.value = lastWrite[1] /\ result'.err = NoError]_vars

\* C8 amended: a second WriteAnnotation(obj, p) with the same p leaves the
\* object as the first left it, and ReadAnnotation then returns what it
\* returned after the first: (p, nil) when p <= MaxPriority, and the
\* invalid-annotation error when p > MaxPriority.
C8_Idempotent ==
    [][/\ (call'.op = "WriteAnnotation" /\ obj # Nil /\ lastWrite = Ref(call'.arg)) =>
              obj' = obj /\ result'.err = NoError
       /\ (call'.op = "ReadAnnotation" /\ obj # Nil /\ repeated) =>
              IF WithinMax(lastWrite[1])
              THEN result'.value = lastWrite[1] /\ result'.err = NoError
              ELSE /\ result'.value = Zero
                   /\ result'.err = InvalidAnnotationError(Annotation, MaxCause)]_vars

C8_Witness ==
    /\ Called("ReadAnnotation") /\ obj # Nil
    /\ repeated
    /\ lastWrite = Ref(U64(MaxPriority + 1))
    /\ Invalid

\* C9: WriteAnnotation accepts every uint64: it returns no error and stores
\* the decimal string of p; after a write of p > MaxPriority HasAnnotation
\* is true and ReadAnnotation fails with an invalid-annotation error.
C9_WriteUnchecked ==
    obj # Nil =>
        /\ Called("WriteAnnotation") =>
               /\ result.err = NoError
               /\ HasKey
               /\ Small(call.arg) =>
                      /\ AllDigits(Value) /\ Short(Value)
                      /\ DecValue(Value) = NatOf(call.arg)
                      /\ (Len(Value) > 1 => Value[1] # "0")
               /\ call.arg = MaxUint64 => Value = StrMaxUint64
        /\ (lastWrite # Nil /\ ~WithinMax(lastWrite[1])) =>
               /\ Called("HasAnnotation") => result.found
               /\ Called("ReadAnnotation") => Invalid /\ result.err.cause = MaxCause

C9_Witness ==
    /\ Called("ReadAnnotation") /\ obj # Nil
    /\ lastWrite = Ref(MaxUint64)
    /\ Value = StrMaxUint64
    /\ Invalid

\* C10: HasAnnotation, ReadAnnotation and GetStaticPriority leave the object
\* unchanged; WriteAnnotation changes only the priority-level entry; no
\* operation changes the static priority table.
C10_Frame ==
    [][/\ staticPriorities' = staticPriorities
       /\ call'.op \in {"HasAnnotation", "ReadAnnotation", "GetStaticPriority"} =>
              obj' = obj
       /\ (call'.op = "WriteAnnotation" /\ obj # Nil) =>
              /\ obj' # Nil
              /\ Identity(obj') = Identity(obj)
              /\ obj'[1].annotations # Nil
              /\ Others(obj') = Others(obj)]_vars

C10_Witness ==
    /\ Called("WriteAnnotation") /\ HasKey
    /\ OtherKey \in DOMAIN obj[1].annotations[1]
    /\ Value = StrFortyTwo
    /\ staticPriorities = StaticPrioritiesTable

====
